---------------------------- MODULE Spec2Model ----------------------------
(***************************************************************************)
(* Model of expenses.py: aggregation of municipal expense records by       *)
(* theme (ds_funcao_governo) and subtheme (ds_subfuncao_governo), and the  *)
(* three historical-series builders that loop over a list of years.        *)
(*                                                                         *)
(* A DataFrame of expenses is a sequence of records with the four columns  *)
(* the code reads.  vl_despesa is a float in the code; the model adds      *)
(* amounts exactly (integers), so rounding of float sums is not modelled.  *)
(* Every record carries a theme and a subtheme string (no missing values). *)
(* A grouped frame is a function from its index keys to its rows.  The     *)
(* order of columns of a frame is not modelled: a row is a function from   *)
(* column names to cells.                                                  *)
(***************************************************************************)
EXTENDS Integers, Sequences, FiniteSets, TLC

VARIABLES
    df,         \* aggregation calls: the DataFrame the functions are applied to
    out,        \* aggregation calls: the last call made and what it returned
    variant,    \* historical call: which of the three builders runs
    city,       \* historical call: argument city
    years,      \* historical call: argument years
    sel,        \* historical call: argument themes / subthemes
    pc,         \* historical call: "loop", "returned" or "raised" ("idle": none)
    fetchLog,   \* historical call: the get_expenses(city, year) invocations made
    fetched,    \* historical call: the DataFrames get_expenses returned
    full_df,    \* historical call: the frame built so far, returned at the end
    err         \* historical call: the exception that ended the call

vars == <<df, out, variant, city, years, sel, pc, fetchLog, fetched,
          full_df, err>>

-----------------------------------------------------------------------------
(* Bounds of the model *)

MaxRecs == 3
MaxYears == 2
MaxSel == 2

PAID == "Valor Pago"
Statuses == {PAID, "Empenhado"}
Themes == {"A", "A_B"}
Subthemes == {"C", "B_C"}
Amounts == {1, 2}

Records ==
    [ds_funcao_governo : Themes, ds_subfuncao_governo : Subthemes,
     tp_despesa : Statuses, vl_despesa : Amounts]

SeqsUpTo(S, n) == UNION {[1..k -> S] : k \in 0..n}

Tables == SeqsUpTo(Records, MaxRecs)

Range(s) == {s[i] : i \in DOMAIN s}

-----------------------------------------------------------------------------
(* Helpers standing for the pandas primitives the code uses *)

RECURSIVE SumSeq(_)
SumSeq(s) == IF s = <<>> THEN 0 ELSE s[1] + SumSeq(Tail(s))

\* Series.unique(): the distinct values in order of first appearance
RECURSIVE unique(_)
unique(s) ==
    IF s = <<>> THEN <<>>
    ELSE LET front == unique(SubSeq(s, 1, Len(s) - 1))
             last == s[Len(s)]
         IN IF last \in Range(front) THEN front ELSE Append(front, last)

\* df[df[col] == v]: the rows whose column col holds v, in their order
RowsWhere(d, col, v) == SelectSeq(d, LAMBDA r : r[col] = v)

\* df[col]: one column of the frame
Column(d, col) == [i \in DOMAIN d |-> d[i][col]]

NoError == [type |-> "none", args |-> <<>>]
KeyError(k) == [type |-> "KeyError", args |-> <<k>>]
Ok(v) == [ok |-> TRUE, val |-> v, err |-> NoError]
Raise(e) == [ok |-> FALSE, val |-> <<>>, err |-> e]

loc_zero_fill(frame, key) ==
    IF key \in DOMAIN frame THEN Ok(frame[key])
    ELSE Ok([vl_despesa |-> 0, ds_subfuncao_governo |-> <<>>])

\* frame.loc[key] on a frame with a single-level index
loc(frame, key) ==
    IF key \in DOMAIN frame THEN Ok(frame[key]) ELSE Raise(KeyError(key))

\* frame.loc[key] on a frame indexed by (theme, subtheme): the rows under
\* the first-level key, indexed by the second level
loc_level0(frame, key) ==
    IF \E k \in DOMAIN frame : k[1] = key
    THEN Ok([s \in {k[2] : k \in {j \in DOMAIN frame : j[1] = key}}
                |-> frame[<<key, s>>]])
    ELSE Raise(KeyError(key))

-----------------------------------------------------------------------------
(* The aggregation functions *)

only_paid_unfiltered(d) == d

only_paid(d) == RowsWhere(d, "tp_despesa", PAID)

get_all_themes(d) == unique(Column(d, "ds_funcao_governo"))

get_all_subthemes_of_raising(d, theme) ==
    IF RowsWhere(d, "ds_funcao_governo", theme) = <<>>
    THEN Raise(KeyError(theme))
    ELSE Ok(unique(Column(RowsWhere(d, "ds_funcao_governo", theme),
                          "ds_subfuncao_governo")))

get_all_subthemes_of(d, theme) ==
    Ok(unique(Column(RowsWhere(d, "ds_funcao_governo", theme),
                     "ds_subfuncao_governo")))

group_by_theme_paid_only(d) ==
    [t \in Range(Column(d, "ds_funcao_governo")) |->
        LET rows == RowsWhere(only_paid(d), "ds_funcao_governo", t)
        IN [vl_despesa |-> SumSeq(Column(rows, "vl_despesa")),
            ds_subfuncao_governo |->
                unique(Column(rows, "ds_subfuncao_governo"))]]

group_by_theme(d) ==
    [t \in Range(Column(d, "ds_funcao_governo")) |->
        LET rows == RowsWhere(d, "ds_funcao_governo", t)
        IN [vl_despesa |-> SumSeq(Column(rows, "vl_despesa")),
            ds_subfuncao_governo |->
                unique(Column(rows, "ds_subfuncao_governo"))]]

group_by_theme_and_subtheme_first_row(d) ==
    [k \in {<<d[i].ds_funcao_governo, d[i].ds_subfuncao_governo>> :
                i \in DOMAIN d} |->
        LET rows == RowsWhere(RowsWhere(d, "ds_funcao_governo", k[1]),
                              "ds_subfuncao_governo", k[2])
        IN [vl_despesa |-> rows[1].vl_despesa]]

group_by_theme_and_subtheme(d) ==
    [k \in {<<d[i].ds_funcao_governo, d[i].ds_subfuncao_governo>> :
                i \in DOMAIN d} |->
        LET rows == RowsWhere(RowsWhere(d, "ds_funcao_governo", k[1]),
                              "ds_subfuncao_governo", k[2])
        IN [vl_despesa |-> SumSeq(Column(rows, "vl_despesa"))]]

group_by_subtheme(d, theme) == loc_level0(group_by_theme_and_subtheme(d), theme)

-----------------------------------------------------------------------------
(* The frames the historical builders assemble.  A frame has a row index,  *)
(* a set of column names and one row per index entry; a row maps every     *)
(* column to a cell, which holds a number or NaN.                          *)

NaN == [nan |-> TRUE, v |-> 0]
Val(n) == [nan |-> FALSE, v |-> n]

\* pd.DataFrame()
DataFrame == [index |-> <<>>, columns |-> {}, rows |-> <<>>]

\* frame[name] = [v], on a frame that is empty or has one row
SetColumn(frame, name, v) ==
    IF frame.rows = <<>>
    THEN [index |-> <<0>>, columns |-> {name},
          rows |-> <<[c \in {name} |-> Val(v)]>>]
    ELSE [index |-> frame.index, columns |-> frame.columns \cup {name},
          rows |-> <<[c \in frame.columns \cup {name} |->
                        IF c = name THEN Val(v) ELSE frame.rows[1][c]]>>]

\* a row seen under a wider set of columns: NaN where it has no cell
Reindex(row, columns) ==
    [c \in columns |-> IF c \in DOMAIN row THEN row[c] ELSE NaN]

\* pd.DataFrame.append(frame, other): the rows of frame, then those of
\* other, over the union of the columns
DataFrameAppend(frame, other) ==
    LET columns == frame.columns \cup other.columns
    IN [index |-> frame.index \o other.index,
        columns |-> columns,
        rows |-> [i \in 1..Len(frame.rows) |-> Reindex(frame.rows[i], columns)]
                 \o [i \in 1..Len(other.rows) |-> Reindex(other.rows[i], columns)]]

ValueError == [type |-> "ValueError", args |-> <<"Length mismatch">>]

\* frame.index = labels
SetIndex(frame, labels) ==
    IF Len(labels) = Len(frame.rows)
    THEN Ok([frame EXCEPT !.index = labels])
    ELSE Raise(ValueError)

ThemeColumn(theme) == "vl_despesa_" \o theme

SubthemeColumn(theme, subtheme) == "vl_despesa_" \o theme \o "_" \o subtheme

-----------------------------------------------------------------------------
(* Aggregation calls: each action applies one function of the module to df *)

NoCall == [op |-> "none", arg |-> "", res |-> Ok(<<>>)]

Idle ==
    /\ variant = "none" /\ city = "" /\ years = <<>> /\ sel = <<>>
    /\ pc = "idle" /\ fetchLog = <<>> /\ fetched = <<>>
    /\ full_df = DataFrame /\ err = NoError

histVars == <<variant, city, years, sel, pc, fetchLog, fetched,
              full_df, err>>

InitAgg ==
    /\ df \in Tables
    /\ out = NoCall
    /\ Idle

\* paid_df = only_paid(df): the caller goes on with the filtered frame
CallOnlyPaid ==
    /\ df' = only_paid(df)
    /\ out' = [op |-> "only_paid", arg |-> "", res |-> Ok(only_paid(df))]
    /\ UNCHANGED histVars

CallGetAllThemes ==
    /\ out' = [op |-> "get_all_themes", arg |-> "", res |-> Ok(get_all_themes(df))]
    /\ UNCHANGED <<df, histVars>>

CallGetAllSubthemesOf ==
    \E theme \in Themes :
        /\ out' = [op |-> "get_all_subthemes_of", arg |-> theme,
                   res |-> get_all_subthemes_of(df, theme)]
        /\ UNCHANGED <<df, histVars>>

CallGroupByTheme ==
    /\ out' = [op |-> "group_by_theme", arg |-> "", res |-> Ok(group_by_theme(df))]
    /\ UNCHANGED <<df, histVars>>

CallGroupByThemeAndSubtheme ==
    /\ out' = [op |-> "group_by_theme_and_subtheme", arg |-> "",
               res |-> Ok(group_by_theme_and_subtheme(df))]
    /\ UNCHANGED <<df, histVars>>

CallGroupBySubtheme ==
    \E theme \in Themes :
        /\ out' = [op |-> "group_by_subtheme", arg |-> theme,
                   res |-> group_by_subtheme(df, theme)]
        /\ UNCHANGED <<df, histVars>>

NextAgg ==
    \/ CallOnlyPaid
    \/ CallGetAllThemes
    \/ CallGetAllSubthemesOf
    \/ CallGroupByTheme
    \/ CallGroupByThemeAndSubtheme
    \/ CallGroupBySubtheme

SpecAgg == InitAgg /\ [][NextAgg]_vars

-----------------------------------------------------------------------------
(* The historical builders.  One action is one pass of a builder's loop    *)
(* over years: the call of get_expenses, the filter, the lookups of every  *)
(* requested selection and the append of the year's row.  An exception     *)
(* raised anywhere in the pass leaves the function.                        *)

Cities == {"campinas", "santos"}
YearSet == {2019, 2020}
YearStr(y) == IF y = 2019 THEN "2019" ELSE "2020"

Rec(t, s, st, a) ==
    [ds_funcao_governo |-> t, ds_subfuncao_governo |-> s,
     tp_despesa |-> st, vl_despesa |-> a]

\* the DataFrames get_expenses may return
SourceTables ==
    { <<>>,
      <<Rec("A", "C", PAID, 1), Rec("A", "B_C", PAID, 2),
        Rec("A", "C", "Empenhado", 4), Rec("A_B", "C", PAID, 8)>>,
      <<Rec("A", "C", PAID, 16), Rec("A_B", "B_C", "Empenhado", 2),
        Rec("A", "C", PAID, 1)>>,
      <<Rec("A_B", "B_C", PAID, 4), Rec("A", "B_C", PAID, 2),
        Rec("A", "C", PAID, 1), Rec("A_B", "C", PAID, 8),
        Rec("A_B", "B_C", "Liquidado", 16)>>,
      <<Rec("A_B", "C", PAID, 8), Rec("A", "B_C", PAID, 2)>>,
      <<Rec("A", "C", "Empenhado", 4)>> }

\* the exception get_expenses lets through when the download, the archive
\* or the csv fails
SourceError == [type |-> "SourceError", args |-> <<>>]

SourceOutcomes == {Raise(SourceError)} \cup {Ok(t) : t \in SourceTables}

\* lines 114-116: the columns of one year of get_themed_historical
RECURSIVE ThemedYear(_, _, _)
ThemedYear(paid_df, themes, year_df) ==
    IF themes = <<>> THEN Ok(year_df)
    ELSE LET theme == Head(themes)
             theme_df == loc(group_by_theme(paid_df), theme)
         IN IF ~theme_df.ok THEN Raise(theme_df.err)
            ELSE ThemedYear(paid_df, Tail(themes),
                    SetColumn(year_df, ThemeColumn(theme),
                              theme_df.val.vl_despesa))

\* lines 136-139: the columns of one year of get_subthemed_historical
RECURSIVE SubthemedYear(_, _, _)
SubthemedYear(paid_df, subthemes, year_df) ==
    IF subthemes = <<>> THEN Ok(year_df)
    ELSE LET theme == Head(subthemes)[1]
             subtheme == Head(subthemes)[2]
             by_subtheme == group_by_subtheme(paid_df, theme)
             theme_df == loc(by_subtheme.val, subtheme)
         IN IF ~by_subtheme.ok THEN Raise(by_subtheme.err)
            ELSE IF ~theme_df.ok THEN Raise(theme_df.err)
            ELSE SubthemedYear(paid_df, Tail(subthemes),
                    SetColumn(year_df, SubthemeColumn(theme, subtheme),
                              theme_df.val.vl_despesa))

\* lines 163-166: the columns of the subthemes found under one theme
RECURSIVE DiscoveredColumns(_, _, _, _)
DiscoveredColumns(subthemes_df, theme, subthemes, year_df) ==
    IF subthemes = <<>> THEN Ok(year_df)
    ELSE LET subtheme == Head(subthemes)
             subtheme_df == loc(subthemes_df, subtheme)
         IN IF ~subtheme_df.ok THEN Raise(subtheme_df.err)
            ELSE DiscoveredColumns(subthemes_df, theme, Tail(subthemes),
                    SetColumn(year_df, SubthemeColumn(theme, subtheme),
                              subtheme_df.val.vl_despesa))

\* lines 160-166: the columns of one year of get_all_subthemes_historical
RECURSIVE AllSubthemesYear(_, _, _)
AllSubthemesYear(paid_df, themes, year_df) ==
    IF themes = <<>> THEN Ok(year_df)
    ELSE LET theme == Head(themes)
             subthemes == get_all_subthemes_of(paid_df, theme)
             subthemes_df == group_by_subtheme(paid_df, theme)
             columns == DiscoveredColumns(subthemes_df.val, theme,
                                          subthemes.val, year_df)
         IN IF ~subthemes.ok THEN Raise(subthemes.err)
            ELSE IF ~subthemes_df.ok THEN Raise(subthemes_df.err)
            ELSE IF ~columns.ok THEN Raise(columns.err)
            ELSE AllSubthemesYear(paid_df, Tail(themes), columns.val)

ThemeLists == SeqsUpTo(Themes, MaxSel)
SubthemeLists == SeqsUpTo(Themes \X Subthemes, MaxSel)

Init ==
    /\ df = <<>>
    /\ out = NoCall
    /\ variant \in {"themed", "subthemed", "all_subthemes"}
    /\ city \in Cities
    /\ years \in SeqsUpTo(YearSet, MaxYears)
    /\ sel \in IF variant = "subthemed" THEN SubthemeLists ELSE ThemeLists
    /\ pc = "loop"
    /\ fetchLog = <<>>
    /\ fetched = <<>>
    /\ full_df = DataFrame
    /\ err = NoError

Swallow(e) ==
    /\ pc' = pc
    /\ err' = e
    /\ UNCHANGED full_df

\* an exception nobody catches ends the call: nothing is returned
Propagate(e) ==
    /\ pc' = "raised"
    /\ err' = e
    /\ UNCHANGED full_df

\* the rest of a pass once get_expenses has answered and the year's columns
\* (year_df, a result of the functions above applied to the paid rows) are
\* known
Pass(expenses, year_df) ==
    IF ~expenses.ok
    THEN fetched' = fetched /\ Propagate(expenses.err)
    ELSE /\ fetched' = Append(fetched, expenses.val)
         /\ IF ~year_df.ok
            THEN Propagate(year_df.err)
            ELSE /\ full_df' = DataFrameAppend(full_df, year_df.val)
                 /\ UNCHANGED <<pc, err>>

NextYear == years[Len(fetchLog) + 1]

InLoop(v) == variant = v /\ pc = "loop" /\ Len(fetchLog) < Len(years)

get_themed_historical ==
    /\ InLoop("themed")
    /\ fetchLog' = Append(fetchLog, <<city, NextYear>>)
    /\ \E expenses \in SourceOutcomes :
          Pass(expenses, ThemedYear(only_paid(expenses.val), sel, DataFrame))
    /\ UNCHANGED <<df, out, variant, city, years, sel>>

get_subthemed_historical ==
    /\ InLoop("subthemed")
    /\ fetchLog' = Append(fetchLog, <<city, NextYear>>)
    /\ \E expenses \in SourceOutcomes :
          Pass(expenses, SubthemedYear(only_paid(expenses.val), sel, DataFrame))
    /\ UNCHANGED <<df, out, variant, city, years, sel>>

get_all_subthemes_historical ==
    /\ InLoop("all_subthemes")
    /\ fetchLog' = Append(fetchLog, <<city, NextYear>>)
    /\ \E expenses \in SourceOutcomes :
          Pass(expenses, AllSubthemesYear(only_paid(expenses.val), sel, DataFrame))
    /\ UNCHANGED <<df, out, variant, city, years, sel>>

\* full_df.index = [y for y in years]; return full_df
Return ==
    /\ pc = "loop"
    /\ Len(fetchLog) = Len(years)
    /\ LET indexed == SetIndex(full_df, years)
       IN IF indexed.ok
          THEN pc' = "returned" /\ full_df' = indexed.val /\ err' = err
          ELSE pc' = "raised" /\ err' = indexed.err /\ full_df' = full_df
    /\ UNCHANGED <<df, out, variant, city, years, sel, fetchLog, fetched>>

Next ==
    \/ get_themed_historical
    \/ get_subthemed_historical
    \/ get_all_subthemes_historical
    \/ Return

Spec == Init /\ [][Next]_vars

-----------------------------------------------------------------------------
(* What the claims speak of, stated on the records themselves *)

RECURSIVE AmountOver(_, _)
AmountOver(table, rows) ==
    IF rows = {} THEN 0
    ELSE LET i == CHOOSE j \in rows : TRUE
         IN table[i].vl_despesa + AmountOver(table, rows \ {i})

PaidRows(table) == {i \in DOMAIN table : table[i].tp_despesa = PAID}
ThemeRows(table, t) == {i \in DOMAIN table : table[i].ds_funcao_governo = t}
PairRows(table, t, s) ==
    {i \in ThemeRows(table, t) : table[i].ds_subfuncao_governo = s}

PaidThemeTotal(table, t) ==
    AmountOver(table, PaidRows(table) \cap ThemeRows(table, t))
PaidPairTotal(table, t, s) ==
    AmountOver(table, PaidRows(table) \cap PairRows(table, t, s))

RECURSIVE TotalOfGroups(_, _)
TotalOfGroups(grouped, keys) ==
    IF keys = {} THEN 0
    ELSE LET k == CHOOSE j \in keys : TRUE
         IN grouped[k].vl_despesa + TotalOfGroups(grouped, keys \ {k})

\* the requested selections with no paid record in a table
MissingSelections(table) ==
    IF variant = "subthemed"
    THEN {p \in Range(sel) :
            PaidRows(table) \cap PairRows(table, p[1], p[2]) = {}}
    ELSE {t \in Range(sel) : PaidRows(table) \cap ThemeRows(table, t) = {}}

AllFetchesAnswered == Len(fetched) = Len(fetchLog)

Returned(v) == variant = v /\ pc = "returned"

\* C1: when every requested selection is present in every year's paid data
\* the call returns a table of len(years) rows whose index is the years
\* list as given
C1_RowsFollowYears ==
    /\ pc = "returned" =>
          /\ full_df.index = years
          /\ Len(full_df.rows) = Len(years)
    /\ (/\ pc = "raised"
        /\ AllFetchesAnswered
        /\ \A k \in DOMAIN fetched : MissingSelections(fetched[k]) = {})
       => FALSE

\* the same with a selection list that is not empty
C1_RowsFollowYearsOfNonEmptySelection ==
    sel # <<>> => C1_RowsFollowYears

\* C2: every cell of the table get_themed_historical returns is the sum of
\* the paid records of its theme in the table fetched for its year
C2_ThemedCellIsPaidThemeTotal ==
    Returned("themed") =>
        /\ Len(fetched) = Len(years)
        /\ Len(full_df.rows) = Len(years)
        /\ \A i \in 1..Len(years) :
              /\ fetchLog[i] = <<city, years[i]>>
              /\ \A t \in Range(sel) :
                    /\ ThemeColumn(t) \in full_df.columns
                    /\ full_df.rows[i][ThemeColumn(t)]
                          = Val(PaidThemeTotal(fetched[i], t))

C2_Witness ==
    /\ Returned("themed")
    /\ Len(years) = 2
    /\ fetched[1] # fetched[2]
    /\ \E i \in 1..2 : \E t \in Range(sel) :
          /\ ThemeRows(fetched[i], t) \ PaidRows(fetched[i]) # {}
          /\ PaidRows(fetched[i]) \cap ThemeRows(fetched[i], t) # {}
          /\ PaidRows(fetched[i]) \ ThemeRows(fetched[i], t) # {}

\* C3: a requested theme or (theme, subtheme) pair with no paid record in
\* one year's table ends get_themed_historical and get_subthemed_historical
\* in an error: no table is returned and no cell is filled in its place
C3_MissingSelectionRaises ==
    variant \in {"themed", "subthemed"} =>
        \A k \in DOMAIN fetched :
            MissingSelections(fetched[k]) # {} =>
                /\ pc = "raised"
                /\ err # NoError
                /\ k = Len(fetched)
                /\ Len(full_df.rows) = k - 1

C3_Witness ==
    /\ variant = "subthemed"
    /\ pc = "raised"
    /\ err.type = "KeyError"
    /\ Len(full_df.rows) = 1
    /\ \E p \in Range(sel) : ThemeRows(only_paid(fetched[2]), p[1]) # {}
                             /\ p \in MissingSelections(fetched[2])

C4_FetchesArePrefixOfYears ==
    /\ Len(fetchLog) <= Len(years)
    /\ \A i \in 1..Len(fetchLog) : fetchLog[i] = <<city, years[i]>>
    /\ pc = "returned" => Len(fetchLog) = Len(years)

\* C4: get_expenses is called once per entry of years, in order, with the
\* call's city; nothing is fetched again or further once a fetch or a
\* lookup has failed
C4_OneFetchPerYearNoRetry ==
    /\ []C4_FetchesArePrefixOfYears
    /\ [][err # NoError => fetchLog' = fetchLog]_vars

C4_Witness ==
    /\ pc = "raised"
    /\ err = SourceError
    /\ sel # <<>>
    /\ Len(years) = 2
    /\ years[1] > years[2]
    /\ fetchLog = <<<<city, years[1]>>>>

\* C5 as stated: the theme totals of group_by_theme(T) add up to the amount
\* of the paid records of T
C5_ThemeTotalsArePaidTotal ==
    out.op = "group_by_theme" =>
        TotalOfGroups(out.res.val, DOMAIN out.res.val)
            = AmountOver(df, PaidRows(df))

\* C5, amended: the theme totals of group_by_theme(T) add up to the amount
\* of all records of T, whatever their status
C5_ThemeTotalsAreTableTotal ==
    out.op = "group_by_theme" =>
        TotalOfGroups(out.res.val, DOMAIN out.res.val)
            = AmountOver(df, DOMAIN df)

C5_Witness ==
    /\ out.op = "group_by_theme"
    /\ Cardinality(DOMAIN out.res.val) = 2
    /\ PaidRows(df) # {}
    /\ PaidRows(df) # DOMAIN df

\* C6: for a theme with a record in T, its total in group_by_theme(T) is the
\* sum of the totals of group_by_subtheme(T, theme), and its subthemes in
\* group_by_theme(T), the keys of group_by_subtheme(T, theme) and
\* get_all_subthemes_of(T, theme) are the same set
C6_ThemeTotalIsSumOfSubthemes ==
    (out.op = "group_by_subtheme" /\ ThemeRows(df, out.arg) # {}) =>
        /\ out.res.ok
        /\ group_by_theme(df)[out.arg].vl_despesa
              = TotalOfGroups(out.res.val, DOMAIN out.res.val)
        /\ Range(group_by_theme(df)[out.arg].ds_subfuncao_governo)
              = DOMAIN out.res.val
        /\ Range(get_all_subthemes_of(df, out.arg).val) = DOMAIN out.res.val

C6_Witness ==
    /\ out.op = "group_by_subtheme"
    /\ out.res.ok
    /\ Cardinality(DOMAIN out.res.val) = 2
    /\ Cardinality(ThemeRows(df, out.arg)) = 3
    /\ PaidRows(df) # DOMAIN df

\* C7 as stated: get_all_subthemes_of fails when no record has the theme
\* and returns a non-empty set otherwise
C7_UnknownThemeFails ==
    out.op = "get_all_subthemes_of" =>
        IF ThemeRows(df, out.arg) = {}
        THEN ~out.res.ok
        ELSE out.res.ok /\ out.res.val # <<>>

\* C7, amended: get_all_subthemes_of never fails; it returns the subthemes
\* of the records that have the theme, hence the empty set exactly when no
\* record has it
C7_UnknownThemeGivesEmpty ==
    out.op = "get_all_subthemes_of" =>
        /\ out.res.ok
        /\ Range(out.res.val)
              = {df[i].ds_subfuncao_governo : i \in ThemeRows(df, out.arg)}
        /\ Cardinality(Range(out.res.val)) = Len(out.res.val)

C7_Witness ==
    /\ out.op = "get_all_subthemes_of"
    /\ df # <<>>
    /\ ThemeRows(df, out.arg) = {}
    /\ out.res = Ok(<<>>)

\* C8: the error of a missing selection names the city, the year and the
\* selection (stated for a year whose table has paid records)
C8_ErrorNamesCityYearSelection ==
    (/\ pc = "raised"
     /\ err.type = "KeyError"
     /\ PaidRows(fetched[Len(fetched)]) # {}) =>
        /\ city \in Range(err.args)
        /\ YearStr(years[Len(fetchLog)]) \in Range(err.args)
        /\ \E m \in MissingSelections(fetched[Len(fetched)]) :
              IF variant = "subthemed"
              THEN {m[1], m[2]} \subseteq Range(err.args)
              ELSE m \in Range(err.args)

\* the (theme, subtheme) pairs get_all_subthemes_historical finds in a table
Discovered(table) ==
    {p \in Themes \X Subthemes :
        /\ p[1] \in Range(sel)
        /\ PaidRows(table) \cap PairRows(table, p[1], p[2]) # {}}

\* C9: in the table get_all_subthemes_historical returns, the row of a year
\* holds the paid total of (theme, subtheme) in that pair's column exactly
\* for the pairs found in that year's table, holds nothing in the column of
\* any other pair, and the columns are those of the pairs found in some year
C9_RowsHoldTheYearsDiscoveredPairs ==
    Returned("all_subthemes") =>
        /\ \A i \in 1..Len(years) : \A p \in Range(sel) \X Subthemes :
              LET column == SubthemeColumn(p[1], p[2])
              IN IF p \in Discovered(fetched[i])
                 THEN /\ column \in full_df.columns
                      /\ full_df.rows[i][column]
                            = Val(PaidPairTotal(fetched[i], p[1], p[2]))
                 ELSE column \in full_df.columns
                         => full_df.rows[i][column] = NaN
        /\ Cardinality(full_df.columns)
              = Cardinality(UNION {Discovered(fetched[i]) :
                                      i \in 1..Len(years)})

\* C10: get_subthemed_historical returns one column per requested pair:
\* different pairs never share a column and no total overwrites another
C10_OneColumnPerRequestedPair ==
    (Returned("subthemed") /\ years # <<>>) =>
        /\ Cardinality(full_df.columns) = Cardinality(Range(sel))
        /\ \A i \in 1..Len(years) : \A p \in Range(sel) :
              full_df.rows[i][SubthemeColumn(p[1], p[2])]
                  = Val(PaidPairTotal(fetched[i], p[1], p[2]))

=============================================================================
